---- MODULE Spec2Model ----
(***************************************************************************)
(* Model of script.js of the portfolio site: the CosmicWeb canvas          *)
(* animation, the ThemeToggle, the Navigation, the ContactForm and the     *)
(* start-up code, as state machines driven by browser events.              *)
(*                                                                         *)
(* Objects of the script are records, one variable per object; a method    *)
(* is an operator from the world (the record of all objects it can touch)  *)
(* to the world after the call, so that a handler is the composition of    *)
(* the calls its code makes.                                               *)
(*                                                                         *)
(* Encodings:                                                              *)
(*  - lengths in CSS pixels are integers; the window sizes and element     *)
(*    boxes are chosen so that the code's /2, *0.75 and *0.4 are exact;    *)
(*  - a filament's depth is kept in hundredths (1.0 is 100, 0.15 is 15);   *)
(*  - the galaxies array is run-length encoded: one run per filament, n    *)
(*    galaxies that all carry that filament's filamentDepth;               *)
(*  - ctx is the list of calls the last draw() made on the 2d context,     *)
(*    run-length encoded the same way;                                     *)
(*  - random coordinates, sizes and phases are left out of the records.    *)
(***************************************************************************)
EXTENDS Integers, Sequences, FiniteSets, TLC

VARIABLES
    cw,        \* the CosmicWeb instance (window.app.starField)
    win,       \* window: innerWidth, innerHeight, scrollY, pending frame callbacks
    doc,       \* document: data-theme attribute, toggle icon, .about-image box, path
    storage,   \* localStorage item 'theme'
    tt,        \* the ThemeToggle instance
    lastOp,    \* history: the handler that ran last
    toggled,   \* history: the theme the last toggleTheme() left, in any session
    before,    \* history: the theme applied when the last toggleTheme() began
    frameKind, \* history: what was handled between the last initialize() or
               \* resize and the frame drawn last (or no frame drawn since)
    nav,       \* the Navigation instance and the classes of its elements
    form,      \* the ContactForm instance, its button and its submissions
    notes,     \* notification elements created by showNotification
    dom,       \* which looked-up elements the page has, and what start-up built
    uncaught,  \* history: an exception reached the top of a task
    thr        \* a throttle(func, limit) wrapper, its timer and the calls made

vars == <<cw, win, doc, storage, tt, lastOp, toggled, before, frameKind, nav, form, notes, dom,
          uncaught, thr>>

\* ---------------------------------------------------------------------------
\* Bounds of the model
\* ---------------------------------------------------------------------------
\* frame timestamps are 1..MaxTime; later ones are collapsed into MaxTime
MaxTime == 1
\* at most this many leading sample points of a filament fail inWedge
MaxRejected == 1
\* number of .nav-link elements of the page
NumLinks == 3
\* an IntersectionObserver callback delivers at most this many entries
MaxEntries == 2
\* submit events handled in one page session
MaxSubmissions == 2
\* notifications shown in one page session
MaxNotes == 3
\* calls of one throttled wrapper, and the time (in units of 50 ms) they span
MaxCalls == 3
MaxClock == 7
MaxCloseTimers == 2

\* ---------------------------------------------------------------------------
\* Program constants
\* ---------------------------------------------------------------------------
majorFilaments == 10
pointsPerFilament == 1200
clusterCount == 35
backgroundCount == 5
segments == 20
\* number of glow layers of the Big Bang point
gradients == 5

Null == "null"
NullObject == [null |-> TRUE]

Min(a, b) == IF a < b THEN a ELSE b

\* F applied to the value of e: e is evaluated once, however often F uses it
Call(e, F(_)) == CHOOSE r \in {F(v) : v \in {e}} : TRUE

\* window sizes (innerWidth, innerHeight) the user switches between
Sizes == {[width |-> 400, height |-> 500], [width |-> 1200, height |-> 1000]}
ScrollYs == {0, 300}
\* the box of the .about-image element in document coordinates, as the
\* responsive layout places it for a window width
Layout(width) ==
    IF width < 768
    THEN [left |-> 100, top |-> 600, width |-> 200, height |-> 200]
    ELSE [left |-> 700, top |-> 100, width |-> 300, height |-> 400]
StoredThemes == {Null, "dark", "light", "sepia"}

\* ---------------------------------------------------------------------------
\* The world the CosmicWeb and ThemeToggle code runs in
\* ---------------------------------------------------------------------------
World == [cw |-> cw, win |-> win, doc |-> doc, storage |-> storage, tt |-> tt]

\* document.documentElement.getAttribute('data-theme') || 'dark'
getTheme(w) == IF w.doc.dataTheme = Null THEN "dark" ELSE w.doc.dataTheme

getThemeColors(a) == Call(a, LAMBDA w :
    IF getTheme(w) = "light"
    THEN [filament |-> "rgba(0, 0, 0", galaxy |-> "rgba(20, 20, 20",
          bigBang |-> "rgba(0, 0, 0"]
    ELSE [filament |-> "rgba(150, 200, 255", galaxy |-> "rgba(150, 200, 255",
          bigBang |-> "rgba(255, 255, 255"])

resize(a) == Call(a, LAMBDA w :
    [w EXCEPT !.cw.canvas = [width |-> w.win.innerWidth, height |-> w.win.innerHeight]])

\* portrait.getBoundingClientRect(): the box moved by the scroll position
getBoundingClientRect(a) == Call(a, LAMBDA w :
    [left |-> w.doc.portrait.left, top |-> w.doc.portrait.top - w.win.scrollY,
     width |-> w.doc.portrait.width, height |-> w.doc.portrait.height])

updatePortraitPosition(a) == Call(a, LAMBDA w :
    IF w.doc.portrait # NullObject /\ w.doc.isAboutPage
    THEN LET rect == getBoundingClientRect(w) IN
         [w EXCEPT !.cw.portraitCenter =
             [x |-> rect.left + rect.width \div 2,
              y |-> rect.top + rect.height \div 2,
              radius |-> Min(rect.width, rect.height) \div 2,
              visible |-> rect.top < w.win.innerHeight /\ rect.top + rect.height > 0,
              isPortraitOrigin |-> TRUE]]
    ELSE LET rightOffset == Min((w.win.innerWidth * 3) \div 4, w.win.innerWidth - 250) IN
         [w EXCEPT !.cw.portraitCenter =
             [x |-> rightOffset,
              y |-> Min((w.win.innerHeight * 2) \div 5, 400),
              radius |-> 20,
              visible |-> TRUE,
              isPortraitOrigin |-> FALSE]])

storeInitialCenterOnce(a) == Call(a, LAMBDA w :
    IF w.cw.initialPortraitCenter # NullObject THEN w
    ELSE [w EXCEPT !.cw.initialPortraitCenter = w.cw.portraitCenter])

\* this.initialPortraitCenter = { ...this.portraitCenter }
storeInitialCenter(a) == Call(a, LAMBDA w :
    [w EXCEPT !.cw.initialPortraitCenter = w.cw.portraitCenter])

\* ---------------------------------------------------------------------------
\* CosmicWeb.generateCosmicStructure
\* ---------------------------------------------------------------------------
\* how many leading sample points of a filament lie within 1.1 radius of the
\* origin: it depends on the real-valued geometry of the origin, is common to
\* the filaments of one generation, and is an input of the generation
Rejections == 0..MaxRejected

\* the sample points of a filament start on the origin's edge and move away
\* from it, so the samples that fail inWedge (dist > 1.1 radius) are the first
\* `rejected` ones; without a portraitCenter every sample fails
inWedgeCount(w, rejected) ==
    IF w.cw.portraitCenter = NullObject THEN 0
    ELSE pointsPerFilament - Min(rejected, pointsPerFilament)

resetArraysKeeping(w) == w

resetArrays(a) == Call(a, LAMBDA w :
    [w EXCEPT !.cw.clusters = <<>>, !.cw.filaments = <<>>, !.cw.galaxies = <<>>])

pushClusters(a) == Call(a, LAMBDA w :
    [w EXCEPT !.cw.clusters = @ \o [i \in 1..clusterCount |-> [connections |-> 0]]])

\* p0..p3 of a filament are functions of the origin and of the filament's
\* index: the record keeps the origin they were computed from
pushMajorFilaments(a) == Call(a, LAMBDA w :
    [w EXCEPT !.cw.filaments = @ \o
        [i \in 1..majorFilaments |->
            [type |-> "major", depth |-> 100, origin |-> w.cw.portraitCenter]]])

pushBackgroundFilaments(a) == Call(a, LAMBDA w :
    [w EXCEPT !.cw.filaments = @ \o
        [i \in 1..backgroundCount |->
            [type |-> "background", depth |-> 15, origin |-> w.cw.portraitCenter]]])

\* f.depth || 1.0
filamentDepthOf(f) == IF f.depth = 0 THEN 100 ELSE f.depth

populateGalaxies(a, rej) == Call(a, LAMBDA w :
    [w EXCEPT !.cw.galaxies = @ \o
        [k \in 1..Len(w.cw.filaments) |->
            [filament |-> k,
             filamentDepth |-> filamentDepthOf(w.cw.filaments[k]),
             n |-> inWedgeCount(w, rej)]]])

generateCosmicStructure(a, rej) == Call(a, LAMBDA w :
    IF w.cw.portraitCenter = NullObject THEN w
    ELSE populateGalaxies(
             pushBackgroundFilaments(pushMajorFilaments(pushClusters(resetArrays(w)))),
             rej))

RECURSIVE SumN(_)
SumN(runs) == IF runs = <<>> THEN 0 ELSE Head(runs).n + SumN(Tail(runs))

\* galaxies.length
galaxiesLength(c) == SumN(c.galaxies)

\* ---------------------------------------------------------------------------
\* CosmicWeb.draw
\* ---------------------------------------------------------------------------
ctxCall(op, item, n, style) == [op |-> op, item |-> item, n |-> n, style |-> style]

clearRect(a) == Call(a, LAMBDA w :
    [w EXCEPT !.cw.ctx = <<ctxCall("clearRect", 0, 1, "")>>])

drawFilaments(a) == Call(a, LAMBDA w :
    IF w.cw.portraitCenter = NullObject THEN w
    ELSE [w EXCEPT !.cw.ctx = @ \o
             [k \in 1..Len(w.cw.filaments) |->
                 ctxCall("stroke", k, segments, getThemeColors(w).filament)]])

\* alpha values are in thousandths. Of the galaxies of a run the one with
\* phase 0 that lies at the origin stands for the run: its shimmer term is
\* sin(time * shimmerSpeed), 3 thousandths per unit of time, and its
\* distance fade is 1
baseAlpha(time) == 700 + (300 * (3 * time)) \div 1000

fadeFactor(origin) == 1000

\* filamentDepth === 1.0 ? 2.5 : 0.5, in hundredths
depthBrightness(filamentDepth) == IF filamentDepth = 100 THEN 250 ELSE 50

galaxyAlpha(time, origin, g) ==
    (baseAlpha(time) * fadeFactor(origin) * depthBrightness(g.filamentDepth))
        \div (1000 * 100)

\* const lightModeAlpha = alpha * 100
lightModeAlpha(alpha) == alpha * 100

\* the fillStyle of a galaxy: its color and the alpha written into it
galaxyFillStyle(w, g) ==
    LET alpha == galaxyAlpha(w.cw.time, w.cw.portraitCenter, g) IN
    IF getTheme(w) = "light"
    THEN [color |-> "rgba(20, 20, 20", alpha |-> lightModeAlpha(alpha)]
    ELSE [color |-> "redshift", alpha |-> alpha]

drawGalaxies(a) == Call(a, LAMBDA w :
    IF w.cw.portraitCenter = NullObject THEN w
    ELSE [w EXCEPT !.cw.ctx = @ \o
             [k \in 1..Len(w.cw.galaxies) |->
                 ctxCall("fill", k, w.cw.galaxies[k].n,
                         galaxyFillStyle(w, w.cw.galaxies[k]))]])

drawBigBangPoint(a) == Call(a, LAMBDA w :
    IF w.cw.portraitCenter = NullObject THEN w
    ELSE [w EXCEPT !.cw.ctx = @ \o
             <<ctxCall("bigBang", 0, gradients, getThemeColors(w).bigBang)>>])

setOffsets(a) == Call(a, LAMBDA w :
    [w EXCEPT !.cw.offsetX = w.cw.portraitCenter.x - w.cw.initialPortraitCenter.x,
              !.cw.offsetY = w.cw.portraitCenter.y - w.cw.initialPortraitCenter.y])

drawLayersGalaxiesFirst(w) == drawFilaments(drawGalaxies(w))

drawLayers(w) == drawGalaxies(drawFilaments(w))

draw(a) == Call(a, LAMBDA w :
    LET cleared == clearRect(w) IN
    IF cleared.cw.portraitCenter = NullObject
       \/ cleared.cw.initialPortraitCenter = NullObject
    THEN cleared
    ELSE LET layers == drawLayers(setOffsets(cleared)) IN
         IF ~layers.cw.portraitCenter.isPortraitOrigin
         THEN drawBigBangPoint(layers)
         ELSE layers)

requestAnimationFrame(a) == Call(a, LAMBDA w : [w EXCEPT !.win.raf = @ + 1])

animate(w, time) == requestAnimationFrame(draw([w EXCEPT !.cw.time = time]))

destroyCancelling(a) == Call(a, LAMBDA w :
    [w EXCEPT !.cw.clusters = <<>>, !.cw.galaxies = <<>>, !.cw.filaments = <<>>,
              !.win.raf = 0])

destroy(a) == Call(a, LAMBDA w :
    [w EXCEPT !.cw.clusters = <<>>, !.cw.galaxies = <<>>, !.cw.filaments = <<>>])

initialize(w, rej) ==
    animate(generateCosmicStructure(
                storeInitialCenter(updatePortraitPosition(resize(w))), rej), 0)

\* the resize listener of initialize()
onResize(w, rej) ==
    generateCosmicStructure(storeInitialCenter(updatePortraitPosition(resize(w))), rej)

onScrollRegenerating(w) ==
    generateCosmicStructure(storeInitialCenter(updatePortraitPosition(w)), 0)

\* the scroll listener of initialize()
onScroll(w) == updatePortraitPosition(w)

\* new CosmicWeb('#starfield'): the fields set by the constructor, then init()
CosmicWebNew(w, rej) ==
    initialize(
        [w EXCEPT !.cw = [canvas |-> [width |-> 300, height |-> 150],
                          ctx |-> <<>>,
                          filaments |-> <<>>, clusters |-> <<>>, galaxies |-> <<>>,
                          portraitCenter |-> NullObject,
                          initialPortraitCenter |-> NullObject,
                          time |-> 0, offsetX |-> 0, offsetY |-> 0]],
        rej)

\* ---------------------------------------------------------------------------
\* ThemeToggle
\* ---------------------------------------------------------------------------
applyThemeAttributeOnly(w, theme) == [w EXCEPT !.doc.dataTheme = theme]

applyTheme(w, theme) ==
    [w EXCEPT !.doc.dataTheme = theme,
              !.doc.icon = IF theme = "light" THEN "fas fa-sun" ELSE "fas fa-moon"]

getItem(w) == w.storage

setItemDropped(w, value) == w

setItem(w, value) == [w EXCEPT !.storage = value]

ThemeToggleNew(a) == Call(a, LAMBDA w :
    LET current == IF getItem(w) = Null THEN "dark" ELSE getItem(w) IN
    applyTheme([w EXCEPT !.tt = [currentTheme |-> current, cosmicWeb |-> TRUE]],
               current))

toggleThemeAnimating(a) == Call(a, LAMBDA w :
    LET flipped == IF w.tt.currentTheme = "dark" THEN "light" ELSE "dark"
        applied == applyTheme([w EXCEPT !.tt.currentTheme = flipped], flipped)
        stored == setItem(applied, applied.tt.currentTheme)
    IN IF stored.tt.cosmicWeb THEN animate(stored, stored.cw.time) ELSE stored)

toggleThemeDrawingFirst(a) == Call(a, LAMBDA w :
    LET flipped == IF w.tt.currentTheme = "dark" THEN "light" ELSE "dark"
        drawn == IF w.tt.cosmicWeb THEN draw(w) ELSE w
        applied == applyTheme([drawn EXCEPT !.tt.currentTheme = flipped], flipped)
    IN setItem(applied, applied.tt.currentTheme))

toggleTheme(a) == Call(a, LAMBDA w :
    LET flipped == IF w.tt.currentTheme = "dark" THEN "light" ELSE "dark"
        applied == applyTheme([w EXCEPT !.tt.currentTheme = flipped], flipped)
        stored == setItem(applied, applied.tt.currentTheme)
    IN IF stored.tt.cosmicWeb THEN draw(stored) ELSE stored)

\* ---------------------------------------------------------------------------
\* Page load: the document as served, then App.initializeComponents
\* ---------------------------------------------------------------------------
\* the .about-image box of a page that has (or has not) a portrait
portraitBox(hasPortrait, width) == IF hasPortrait THEN Layout(width) ELSE NullObject

BlankPage(size, hasPortrait, about, stored) ==
    [cw |-> NullObject,
     win |-> [innerWidth |-> size.width, innerHeight |-> size.height,
              scrollY |-> 0, raf |-> 0],
     doc |-> [dataTheme |-> Null, icon |-> "fas fa-moon",
              portrait |-> portraitBox(hasPortrait, size.width),
              isAboutPage |-> about],
     storage |-> stored,
     tt |-> NullObject]

initializeComponents(w, rej) == ThemeToggleNew(CosmicWebNew(w, rej))

\* the objects after a handler returned the world a
Apply(a, op) ==
    \E w \in {a} :
        /\ cw' = w.cw
        /\ win' = w.win
        /\ doc' = w.doc
        /\ storage' = w.storage
        /\ tt' = w.tt
        /\ lastOp' = op

\* ---------------------------------------------------------------------------
\* The page with its canvas and theme toggle: browser events
\* ---------------------------------------------------------------------------
otherVars == <<nav, form, notes, dom, uncaught, thr>>

Idle ==
    /\ nav = NullObject
    /\ form = NullObject
    /\ notes = <<>>
    /\ dom = NullObject
    /\ uncaught = FALSE
    /\ thr = NullObject

Init ==
    /\ \E size \in Sizes, hasPortrait \in BOOLEAN, about \in BOOLEAN,
          stored \in StoredThemes, rej \in Rejections :
          LET w == initializeComponents(
                       BlankPage(size, hasPortrait, about, stored), rej)
          IN /\ cw = w.cw
             /\ win = w.win
             /\ doc = w.doc
             /\ storage = w.storage
             /\ tt = w.tt
    /\ lastOp = "load"
    /\ toggled = Null
    /\ before = Null
    /\ frameKind = "first"
    /\ Idle

\* the kind of the frame a draw() now draws
FrameDrawn ==
    CASE frameKind = "resized" -> "first"
      [] frameKind = "resizedScrolled" -> "firstScrolled"
      [] OTHER -> "later"

\* the browser runs one pending frame callback with a timestamp
AnimateFrame ==
    /\ win.raf > 0
    /\ \E t \in 1..MaxTime :
          /\ t > cw.time \/ t = MaxTime
          /\ Apply(animate([World EXCEPT !.win.raf = @ - 1], t), "animate")
    /\ frameKind' = FrameDrawn
    /\ UNCHANGED <<toggled, before, otherVars>>

\* the window is resized: the layout moves the portrait, then the listener runs
Resize ==
    /\ \E size \in Sizes, rej \in Rejections :
          /\ size.width # win.innerWidth \/ size.height # win.innerHeight
          /\ Apply(onResize([World EXCEPT
                       !.win.innerWidth = size.width,
                       !.win.innerHeight = size.height,
                       !.doc.portrait =
                           portraitBox(doc.portrait # NullObject, size.width)],
                       rej),
                   "resize")
    /\ frameKind' = "resized"
    /\ UNCHANGED <<toggled, before, otherVars>>

Scroll ==
    /\ \E y \in ScrollYs :
          /\ y # win.scrollY
          /\ Apply(onScroll([World EXCEPT !.win.scrollY = y]), "scroll")
    /\ frameKind' = (IF frameKind = "resized" THEN "resizedScrolled" ELSE frameKind)
    /\ UNCHANGED <<toggled, before, otherVars>>

\* a click on #theme-toggle
ToggleTheme ==
    /\ Apply(toggleTheme(World), "toggleTheme")
    /\ toggled' = tt'.currentTheme
    /\ before' = doc.dataTheme
    /\ frameKind' = FrameDrawn
    /\ UNCHANGED otherVars

\* beforeunload: window.app.destroy()
Destroy ==
    /\ Apply(destroy(World), "destroy")
    /\ UNCHANGED <<toggled, before, frameKind, otherVars>>

\* the page is loaded again in the same window: a new document and new objects,
\* the same localStorage
Reload ==
    /\ \E rej \in Rejections :
          Apply(initializeComponents(
                    BlankPage([width |-> win.innerWidth, height |-> win.innerHeight],
                              doc.portrait # NullObject, doc.isAboutPage, storage),
                    rej),
                "load")
    /\ frameKind' = "first"
    /\ UNCHANGED <<toggled, before, otherVars>>

Next == AnimateFrame \/ Resize \/ Scroll \/ ToggleTheme \/ Destroy \/ Reload

Spec == Init /\ [][Next]_vars

\* animation frames keep being delivered while a callback is pending
FairSpec == Spec /\ WF_vars(AnimateFrame)

\* ---------------------------------------------------------------------------
\* Properties of the canvas animation and of the theme toggle
\* ---------------------------------------------------------------------------

\* C1: after initialize() exactly one animate callback is pending, whatever
\* resize, scroll, theme-toggle and destroy events have been handled
C1_OneFramePending == win.raf = 1

C1_Witness ==
    /\ lastOp = "toggleTheme"
    /\ cw.time > 0
    /\ cw.filaments = <<>>
    /\ win.raf = 1

\* C2: every animate callback schedules its successor and nothing cancels the
\* loop: with frames delivered fairly a frame is drawn again and again, also
\* after destroy()
C2_FramesForever ==
    /\ [][lastOp' = "animate" => win'.raf >= 1]_vars
    /\ []<>(lastOp = "animate")

C2_Witness ==
    /\ lastOp = "animate"
    /\ cw.clusters = <<>>
    /\ cw.galaxies = <<>>
    /\ Len(cw.ctx) = 2

C5_ThemePersisted ==
    /\ toggled # Null =>
          /\ toggled \in {"dark", "light"}
          /\ storage = toggled
          /\ doc.dataTheme = toggled
    /\ storage = Null => doc.dataTheme = "dark"

C5_Witness ==
    /\ lastOp = "load"
    /\ toggled = "light"
    /\ doc.dataTheme = "light"

\* the indices of the calls of one kind in a frame's call list
CallsOf(log, op) == {i \in 1..Len(log) : log[i].op = op}

\* C10: a frame clears the canvas first, then strokes every filament with 20
\* segments, then fills every galaxy once, and ends with the Big Bang point
\* exactly on pages whose origin is not the portrait
C10_FrameSequence ==
    lastOp \in {"load", "animate", "toggleTheme"} =>
        LET log == cw.ctx IN
        /\ CallsOf(log, "clearRect") = {1}
        /\ Cardinality(CallsOf(log, "stroke")) = Len(cw.filaments)
        /\ \A k \in 1..Len(cw.filaments) :
              \E i \in CallsOf(log, "stroke") : log[i].item = k /\ log[i].n = 20
        /\ Cardinality(CallsOf(log, "fill")) = Len(cw.galaxies)
        /\ \A k \in 1..Len(cw.galaxies) :
              \E i \in CallsOf(log, "fill") :
                  log[i].item = k /\ log[i].n = cw.galaxies[k].n
        /\ \A i \in CallsOf(log, "stroke"), j \in CallsOf(log, "fill") : i < j
        /\ CallsOf(log, "bigBang") =
              IF cw.portraitCenter.isPortraitOrigin THEN {} ELSE {Len(log)}
        /\ \A i \in CallsOf(log, "bigBang") :
              \A j \in CallsOf(log, "stroke") \cup CallsOf(log, "fill") : j < i

C10_Witness ==
    /\ lastOp = "animate"
    /\ cw.time > 0
    /\ Len(cw.filaments) = 15
    /\ ~cw.portraitCenter.isPortraitOrigin
    /\ cw.ctx[Len(cw.ctx)].op = "bigBang"
    /\ Len(cw.ctx) = 1 + 15 + 15 + 1

C10_WitnessPortrait ==
    /\ lastOp = "toggleTheme"
    /\ cw.portraitCenter.isPortraitOrigin
    /\ Len(cw.ctx) = 1 + 15 + 15

\* ---------------------------------------------------------------------------
\* Navigation
\* ---------------------------------------------------------------------------
webVars == <<cw, win, doc, storage, tt, toggled, before, frameKind, thr>>

WebIdle ==
    /\ cw = NullObject
    /\ win = NullObject
    /\ doc = NullObject
    /\ storage = Null
    /\ tt = NullObject
    /\ toggled = Null
    /\ before = Null
    /\ frameKind = Null
    /\ thr = NullObject

\* href attributes of nav links, and ids of the observed .section elements
Hrefs == {"#about", "#cv", "about.html"}
SectionIds == {"about", "cv", "contact"}

\* new Navigation() on a page whose nav links carry these hrefs; no element
\* carries class 'active' or 'scrolled' in the document as served
NavigationNew(hrefs) ==
    [navbarScrolled |-> FALSE,
     menuActive |-> FALSE,
     toggleActive |-> FALSE,
     links |-> [i \in 1..Len(hrefs) |-> [href |-> hrefs[i], active |-> FALSE]],
     lastTarget |-> Null]

\* classList.toggle('active')
classListToggle(has) == ~has

\* the click listener of #nav-toggle
onNavToggleClick(n) ==
    [n EXCEPT !.menuActive = classListToggle(@),
              !.toggleActive = classListToggle(@)]

onNavLinkClickMenuOnly(n) == [n EXCEPT !.menuActive = FALSE]

\* the click listener of every .nav-link
onNavLinkClick(n) == [n EXCEPT !.menuActive = FALSE, !.toggleActive = FALSE]

\* the scroll listener of setupScrollEffect
onNavScroll(n, scrollY) == [n EXCEPT !.navbarScrolled = scrollY > 50]

updateActiveNavLinkAdding(n, targetId) ==
    [n EXCEPT !.links = [i \in 1..Len(n.links) |->
                            [n.links[i] EXCEPT
                                !.active = @ \/ n.links[i].href = targetId]],
              !.lastTarget = targetId]

\* lastTarget is history: the argument of the last call
updateActiveNavLink(n, targetId) ==
    [n EXCEPT !.links = [i \in 1..Len(n.links) |->
                            [n.links[i] EXCEPT !.active = (n.links[i].href = targetId)]],
              !.lastTarget = targetId]

\* `#${entry.target.id}`
targetIdOf(entry) == "#" \o entry.id

\* the IntersectionObserver callback: entries.forEach
RECURSIVE onIntersect(_, _)
onIntersect(n, entries) ==
    IF entries = <<>> THEN n
    ELSE onIntersect(
             IF Head(entries).isIntersecting
             THEN updateActiveNavLink(n, targetIdOf(Head(entries)))
             ELSE n,
             Tail(entries))

Entries == [id : SectionIds, isIntersecting : BOOLEAN]
EntryLists == UNION {[1..k -> Entries] : k \in 1..MaxEntries}

NavInit ==
    /\ \E hrefs \in [1..NumLinks -> Hrefs] : nav = NavigationNew(hrefs)
    /\ lastOp = "load"
    /\ WebIdle
    /\ form = NullObject
    /\ notes = <<>>
    /\ dom = NullObject
    /\ uncaught = FALSE

navRest == <<webVars, form, notes, dom, uncaught>>

NavToggleClick ==
    /\ nav' = onNavToggleClick(nav)
    /\ lastOp' = "navToggleClick"
    /\ UNCHANGED navRest

NavLinkClick ==
    /\ \E i \in 1..Len(nav.links) : nav' = onNavLinkClick(nav)
    /\ lastOp' = "navLinkClick"
    /\ UNCHANGED navRest

NavScroll ==
    /\ \E y \in ScrollYs : nav' = onNavScroll(nav, y)
    /\ lastOp' = "navScroll"
    /\ UNCHANGED navRest

Intersect ==
    /\ \E entries \in EntryLists : nav' = onIntersect(nav, entries)
    /\ lastOp' = "intersect"
    /\ UNCHANGED navRest

NavNext == NavToggleClick \/ NavLinkClick \/ NavScroll \/ Intersect

NavSpec == NavInit /\ [][NavNext]_vars

\* C8: the nav menu is active exactly when the hamburger toggle is; a hamburger
\* click flips both and a nav-link click leaves both inactive
C8_MenuFollowsToggle ==
    /\ [](nav.menuActive = nav.toggleActive)
    /\ [][/\ lastOp' = "navToggleClick" =>
                /\ nav'.menuActive = ~nav.menuActive
                /\ nav'.toggleActive = ~nav.toggleActive
          /\ lastOp' = "navLinkClick" =>
                /\ ~nav'.menuActive
                /\ ~nav'.toggleActive]_vars

C8_Witness ==
    /\ lastOp = "navToggleClick"
    /\ nav.menuActive
    /\ nav.toggleActive

ActiveLinks == {i \in 1..Len(nav.links) : nav.links[i].active}

\* C9: after updateActiveNavLink(targetId) the active nav links are exactly
\* those whose href equals targetId: at most one when the hrefs are distinct,
\* none when no href equals targetId
C9_ActiveLinkIsTarget ==
    nav.lastTarget # Null =>
        /\ ActiveLinks = {i \in 1..Len(nav.links) : nav.links[i].href = nav.lastTarget}
        /\ (\A i, j \in 1..Len(nav.links) :
                i # j => nav.links[i].href # nav.links[j].href)
              => Cardinality(ActiveLinks) <= 1
        /\ (\A i \in 1..Len(nav.links) : nav.links[i].href # nav.lastTarget)
              => ActiveLinks = {}

C9_Witness ==
    /\ nav.lastTarget = "#cv"
    /\ nav.links[1].href = "#about"
    /\ nav.links[2].href = "#cv"
    /\ ActiveLinks = {2}

C9_WitnessNone ==
    /\ nav.lastTarget = "#contact"
    /\ ActiveLinks = {}

\* ---------------------------------------------------------------------------
\* ContactForm
\* ---------------------------------------------------------------------------
\* innerHTML of the .submit-btn in the document as served
ButtonTexts == {"<i class=\"fas fa-paper-plane\"></i> Send Message", "Send"}
SendingText == "<i class=\"fas fa-spinner fa-spin\"></i> Sending..."
SuccessMessage == "Message sent successfully! I'll get back to you soon."
RejectionMessage == "Failed to send message. Please try again."

\* the form and the notifications, the objects the form's handlers touch
FormWorld == [form |-> form, notes |-> notes]

\* new ContactForm(); filled: the required fields hold input; outcome[id]:
\* the state of the promise of submission id; resetBy is history: the
\* submissions whose handler called form.reset()
ContactFormNew(btnText) ==
    [originalBtnText |-> btnText,
     btnHTML |-> btnText,
     btnDisabled |-> FALSE,
     filled |-> FALSE,
     outcome |-> <<>>,
     resetBy |-> {}]

setLoadingStateKeepingLabel(a, loading) == Call(a, LAMBDA w :
    IF loading
    THEN [w EXCEPT !.form.btnHTML = SendingText, !.form.btnDisabled = TRUE]
    ELSE [w EXCEPT !.form.btnDisabled = FALSE])

setLoadingState(a, loading) == Call(a, LAMBDA w :
    IF loading
    THEN [w EXCEPT !.form.btnHTML = SendingText, !.form.btnDisabled = TRUE]
    ELSE [w EXCEPT !.form.btnHTML = w.form.originalBtnText,
                   !.form.btnDisabled = FALSE])

\* a pending setTimeout callback of a notification: base is the callback
\* that set it ("create": the function that made the notification)
Timer(name, delay, base) == [name |-> name, delay |-> delay, base |-> base]

\* a notification element: appended to the body off screen with its timers
\* set; sub and fired are history: the submission the notification reports
\* (0 for none) and the callbacks that have run, in order
Notification(type, message, sub, timers) ==
    [type |-> type, message |-> message, sub |-> sub,
     transform |-> "translateX(100%)", inBody |-> TRUE,
     timers |-> timers, fired |-> <<>>]

showNotificationRemovingEarly(a, message, type, sub) == Call(a, LAMBDA w :
    [w EXCEPT !.notes = Append(@, Notification(type, message, sub,
        {Timer("in", 100, "create"), Timer("out", 5000, "create"),
         Timer("remove", 300, "create")}))])

showNotification(a, message, type, sub) == Call(a, LAMBDA w :
    [w EXCEPT !.notes = Append(@, Notification(type, message, sub,
        {Timer("in", 100, "create"), Timer("out", 5000, "create")}))])

\* showTempNotification: the type is ignored, the element is removed sooner
showTempNotification(a, message, type) == Call(a, LAMBDA w :
    [w EXCEPT !.notes = Append(@, Notification("temp", message, 0,
        {Timer("in", 100, "create"), Timer("out", 3000, "create")}))])

\* downloadCV() while cvUrl is '#'
downloadCV(w) == showTempNotification(w, "CV download will be available soon!", "info")

\* the callback of a timer of a notification
runTimer(n, t) ==
    LET ran == [n EXCEPT !.timers = @ \ {t}, !.fired = Append(@, t.name)] IN
    CASE t.name = "in" -> [ran EXCEPT !.transform = "translateX(0)"]
      [] t.name = "out" ->
             [ran EXCEPT !.transform = "translateX(100%)",
                         !.timers = @ \cup {Timer("remove", 300, "out")}]
      [] t.name = "remove" ->
             IF ran.inBody THEN [ran EXCEPT !.inBody = FALSE] ELSE ran

showSuccess(w, sub) == showNotification(w, SuccessMessage, "success", sub)

showErrorSilently(w, message, sub) == w

showError(w, message, sub) == showNotification(w, message, "error", sub)

\* this.form.reset()
formReset(a, sub) == Call(a, LAMBDA w :
    [w EXCEPT !.form.filled = FALSE, !.form.resetBy = @ \cup {sub}])

\* simulateFormSubmission: the promise is created and its 2000 ms timer set
simulateFormSubmission(a) == Call(a, LAMBDA w :
    [w EXCEPT !.form.outcome = Append(@, "pending")])

\* handleSubmit up to its await
handleSubmit(w) == simulateFormSubmission(setLoadingState(w, TRUE))

\* the 2000 ms timer of submission id: Math.random() > 0.1 decides
settlePromise(a, id, resolved) == Call(a, LAMBDA w :
    [w EXCEPT !.form.outcome[id] = IF resolved THEN "resolved" ELSE "rejected"])

\* handleSubmit after its await: try / catch / finally
resumeSubmit(a, id) == Call(a, LAMBDA w :
    LET tried == IF w.form.outcome[id] = "resolved"
                 THEN formReset(showSuccess(w, id), id)
                 ELSE showError(w, RejectionMessage, id)
    IN setLoadingState(tried, FALSE))

ApplyForm(a, op) ==
    \E w \in {a} :
        /\ form' = w.form
        /\ notes' = w.notes
        /\ lastOp' = op

formRest == <<webVars, nav, dom, uncaught>>

FormInit ==
    /\ \E btnText \in ButtonTexts : form = ContactFormNew(btnText)
    /\ notes = <<>>
    /\ lastOp = "load"
    /\ WebIdle
    /\ nav = NullObject
    /\ dom = NullObject
    /\ uncaught = FALSE

\* the user types into the required fields
FillForm ==
    /\ ~form.filled
    /\ form' = [form EXCEPT !.filled = TRUE]
    /\ lastOp' = "fill"
    /\ UNCHANGED <<notes, formRest>>

\* a submit event: the form is valid; nothing in the handler looks at the button
Submit ==
    /\ form.filled
    /\ Len(form.outcome) < MaxSubmissions
    /\ ApplyForm(handleSubmit(FormWorld), "submit")
    /\ UNCHANGED formRest

\* the timer of submission id fires and the awaiting handler resumes
Settle(id) ==
    /\ id <= Len(form.outcome)
    /\ form.outcome[id] = "pending"
    /\ \E resolved \in BOOLEAN :
          ApplyForm(resumeSubmit(settlePromise(FormWorld, id, resolved), id), "settle")
    /\ UNCHANGED formRest

TimerNames == {"in", "out", "remove"}

\* the timers that notification i's creating function set and that are
\* still pending
CreateTimers(i) == {u \in notes[i].timers : u.base = "create"}

\* notifications made by the same function: their timers have the same delays
SameDelays(i, j) == (notes[i].type = "temp") <=> (notes[j].type = "temp")

\* a timer of notification i fires. A timer fires after the timers that were
\* set before it, or by the same callback, with a delay that is not longer
NoteTimer(i, name) ==
    /\ i <= Len(notes)
    /\ \E t \in notes[i].timers :
          /\ t.name = name
          /\ \A u \in notes[i].timers : u.base = t.base => u.delay >= t.delay
          /\ t.base = "create" =>
                 \A j \in 1..(i - 1) : \A u \in CreateTimers(j) : u.delay > t.delay
          /\ t.base = "out" =>
                 \A j \in 1..(i - 1) :
                     SameDelays(i, j) => \A u \in notes[j].timers : u.base # "out"
          /\ notes' = [notes EXCEPT ![i] = runTimer(@, t)]
    /\ lastOp' = "noteTimer"
    /\ UNCHANGED <<form, formRest>>

FormNext ==
    \/ FillForm
    \/ Submit
    \/ \E id \in 1..MaxSubmissions : Settle(id)
    \/ \E i \in 1..MaxSubmissions, name \in TimerNames : NoteTimer(i, name)

FormSpec == FormInit /\ [][FormNext]_vars

\* the 2000 ms timer of every submission fires
FairFormSpec == FormSpec /\ \A id \in 1..MaxSubmissions : WF_vars(Settle(id))

\* ---------------------------------------------------------------------------
\* The notifications of the page, whichever function shows them
\* ---------------------------------------------------------------------------
NotesInit ==
    /\ notes = <<>>
    /\ form = NullObject
    /\ lastOp = "load"
    /\ WebIdle
    /\ nav = NullObject
    /\ dom = NullObject
    /\ uncaught = FALSE

\* ContactForm.showSuccess()
ShowSuccess ==
    /\ Len(notes) < MaxNotes
    /\ ApplyForm(showSuccess(FormWorld, 0), "showSuccess")
    /\ UNCHANGED formRest

\* ContactForm.showError(error.message)
ShowError ==
    /\ Len(notes) < MaxNotes
    /\ ApplyForm(showError(FormWorld, RejectionMessage, 0), "showError")
    /\ UNCHANGED formRest

\* a click on the CV download button
TempNotify ==
    /\ Len(notes) < MaxNotes
    /\ ApplyForm(downloadCV(FormWorld), "downloadCV")
    /\ UNCHANGED formRest

NotesNext ==
    \/ ShowSuccess
    \/ ShowError
    \/ TempNotify
    \/ \E i \in 1..MaxNotes, name \in TimerNames : NoteTimer(i, name)

NotesSpec == NotesInit /\ [][NotesNext]_vars

\* every timer that was set fires
FairNotesSpec ==
    NotesSpec /\ \A i \in 1..MaxNotes : WF_vars(\E name \in TimerNames : NoteTimer(i, name))

NotesOf(id) == {i \in 1..Len(notes) : notes[i].sub = id}

\* C6: a settled submission has exactly one notification, of the kind of its
\* outcome: success with the form reset, or error with the rejection message
\* and the form not reset; a pending one has none
C6_OneFeedback ==
    \A id \in 1..Len(form.outcome) :
        CASE form.outcome[id] = "pending" ->
                 NotesOf(id) = {} /\ id \notin form.resetBy
          [] form.outcome[id] = "resolved" ->
                 /\ Cardinality(NotesOf(id)) = 1
                 /\ \A i \in NotesOf(id) : notes[i].type = "success"
                 /\ id \in form.resetBy
          [] form.outcome[id] = "rejected" ->
                 /\ Cardinality(NotesOf(id)) = 1
                 /\ \A i \in NotesOf(id) :
                       notes[i].type = "error" /\ notes[i].message = RejectionMessage
                 /\ id \notin form.resetBy

C6_Witness ==
    /\ Len(form.outcome) = 2
    /\ form.outcome[1] = "rejected"
    /\ form.outcome[2] = "resolved"
    /\ Len(notes) = 2
    /\ notes[1].type = "error"
    /\ notes[2].type = "success"

\* C7: every submission settles, and the step that settles it, resolved or
\* rejected, leaves the button enabled with the text captured at construction
C7_LoadingUndone ==
    /\ \A id \in 1..MaxSubmissions :
          (Len(form.outcome) >= id /\ form.outcome[id] = "pending")
              ~> (Len(form.outcome) >= id /\ form.outcome[id] # "pending")
    /\ [][lastOp' = "settle" =>
              /\ ~form'.btnDisabled
              /\ form'.btnHTML = form'.originalBtnText]_vars

C7_Witness ==
    /\ lastOp = "settle"
    /\ \E id \in 1..Len(form.outcome) : form.outcome[id] = "rejected"
    /\ ~form.btnDisabled
    /\ form.btnHTML = form.originalBtnText
    /\ form.originalBtnText = "Send"

\* ---------------------------------------------------------------------------
\* Elements of the document and the exceptions of start-up and of the handlers
\* ---------------------------------------------------------------------------
\* the elements the script looks up
Elements ==
    {"#starfield", "#navbar", "#nav-toggle", "#nav-menu", "#theme-toggle",
     "#contact-form", ".submit-btn", "#tocFloatBtn", "#tocSidebar",
     "#tocOverlay", "#tocCloseBtn", "#tocContent", ".hero-subtitle"}

\* the documents: .submit-btn is looked up inside #contact-form
Documents ==
    {p \in SUBSET Elements : ".submit-btn" \in p => "#contact-form" \in p}

\* document.querySelector / getElementById returned an element
has(d, e) == e \in d.present

\* a TypeError is raised: a member of null is read
throw(d) == [d EXCEPT !.thrown = TRUE]

addEventListener(d, l) == [d EXCEPT !.listeners = @ \cup {l}]

\* the assignment of the constructed object to its field
constructed(d, c) == [d EXCEPT !.components = @ \cup {c}]

\* statement sequencing: an exception skips the statements after it
Then(e, F(_)) == CHOOSE r \in {IF v.thrown THEN v ELSE F(v) : v \in {e}} : TRUE

\* new CosmicWeb('#starfield'): this.canvas.getContext, then initialize()
constructCosmicWeb(d) ==
    IF ~has(d, "#starfield") THEN throw(d)
    ELSE addEventListener(addEventListener(d, "cosmicResize"), "cosmicScroll")

setupScrollEffect(d) == addEventListener(d, "navbarScroll")

setupMobileMenu(d) ==
    IF ~has(d, "#nav-toggle") THEN throw(d)
    ELSE addEventListener(addEventListener(d, "navToggleClick"), "navLinkClick")

\* new Navigation(): init()
constructNavigation(d) ==
    Then(Then(setupScrollEffect(d), setupMobileMenu),
         LAMBDA v : addEventListener(v, "handleScroll"))

\* new ThemeToggle(): applyTheme reads this.themeToggle.querySelector
constructThemeToggle(d) ==
    IF ~has(d, "#theme-toggle") THEN throw(d)
    ELSE addEventListener(d, "themeToggleClick")

constructScrollAnimations(d) == d

\* new ContactForm()
constructContactForm(d) ==
    IF ~has(d, "#contact-form") THEN throw(d)
    ELSE IF ~has(d, ".submit-btn") THEN throw(d)
    ELSE addEventListener(d, "formSubmit")

catchSilently(d) == [d EXCEPT !.thrown = FALSE]

\* catch (error) { console.error(...) }
catchAndLog(d) ==
    IF d.thrown THEN [d EXCEPT !.thrown = FALSE, !.logged = TRUE] ELSE d

\* App.initializeComponents: one try block around the five constructors
appInitializeComponents(d) ==
    catchAndLog(
      Then(Then(Then(Then(Then(Then(Then(Then(Then(Then(
        constructCosmicWeb(d),
        LAMBDA v : constructed(v, "starField")),
        constructNavigation),
        LAMBDA v : constructed(v, "navigation")),
        constructThemeToggle),
        LAMBDA v : constructed(v, "themeToggle")),
        constructScrollAnimations),
        LAMBDA v : constructed(v, "scrollAnimations")),
        constructContactForm),
        LAMBDA v : constructed(v, "contactForm")),
        LAMBDA v : [v EXCEPT !.loaded = TRUE]))

\* generateTOC returns at once without its container; with it, it builds one
\* link for each heading of the note body (the note body has a heading) and
\* bindLinks registers handleLinkClick on every link
bindLinks(d) == addEventListener(d, "tocLinkClick")

generateTOC(d) == IF has(d, "#tocContent") THEN bindLinks(d) ELSE d

setInitialExpandStates(d) == IF has(d, "#tocContent") THEN d ELSE throw(d)

\* TableOfContents.init
tocInit(d) ==
    Then(Then(Then(Then(Then(Then(Then(
      generateTOC(d),
      LAMBDA v : addEventListener(v, "tocFloatClick")),
      LAMBDA v : IF has(v, "#tocCloseBtn")
                 THEN addEventListener(v, "tocCloseClick") ELSE throw(v)),
      LAMBDA v : IF has(v, "#tocOverlay")
                 THEN addEventListener(v, "tocOverlayClick") ELSE throw(v)),
      LAMBDA v : IF "tocLinkClick" \in v.listeners
                 THEN addEventListener(v, "tocLinkClickAgain") ELSE v),
      LAMBDA v : addEventListener(addEventListener(v, "tocScroll"), "tocResize")),
      setInitialExpandStates),
      LAMBDA v : addEventListener(v, "tocKeydown"))

\* new TableOfContents()
constructTableOfContents(d) ==
    IF has(d, "#tocFloatBtn") /\ has(d, "#tocSidebar") THEN tocInit(d) ELSE d

\* TableOfContents.open: isOpen and the class of the sidebar are assigned
\* before the overlay is read
tocOpen(d) ==
    Then([d EXCEPT !.isOpen = TRUE, !.sidebarActive = TRUE],
         LAMBDA v : IF has(v, "#tocOverlay")
                    THEN [v EXCEPT !.overlayActive = TRUE,
                                   !.floatBtnActive = TRUE,
                                   !.bodyOverflow = "hidden"]
                    ELSE throw(v))

\* TableOfContents.close
tocClose(d) ==
    Then([d EXCEPT !.isOpen = FALSE, !.sidebarActive = FALSE],
         LAMBDA v : IF has(v, "#tocOverlay")
                    THEN [v EXCEPT !.overlayActive = FALSE,
                                   !.floatBtnActive = FALSE,
                                   !.bodyOverflow = ""]
                    ELSE throw(v))

tocToggle(d) == IF d.isOpen THEN tocClose(d) ELSE tocOpen(d)

\* the widths of the window on either side of the 768 px breakpoint
InnerWidths == {768, 769}

\* the keys of a keydown event
Keys == {"Escape", "Enter"}

\* an event as a listener sees it: its key, and window.innerWidth at the
\* time of its dispatch
Event(key, innerWidth) == [key |-> key, innerWidth |-> innerWidth]

\* TableOfContents.handleLinkClick: the heading of the link is in the
\* document; on a narrow window the close is set to run after 300 ms
handleLinkClick(d, e) ==
    IF e.innerWidth <= 768
    THEN [d EXCEPT !.closeTimers = @ + 1]
    ELSE d

\* the body of one registered listener
runListener(d, l, e) ==
    CASE l = "navbarScroll" -> IF has(d, "#navbar") THEN d ELSE throw(d)
      [] l \in {"navToggleClick", "navLinkClick"} ->
             IF has(d, "#nav-menu") THEN d ELSE throw(d)
      [] l = "tocFloatClick" -> tocToggle(d)
      [] l \in {"tocCloseClick", "tocOverlayClick"} -> tocClose(d)
      [] l \in {"tocLinkClick", "tocLinkClickAgain"} -> handleLinkClick(d, e)
      [] l = "tocKeydown" ->
             IF e.key = "Escape" /\ d.isOpen THEN tocClose(d) ELSE d
      [] OTHER -> d

\* the listeners of an event, in the order of their registration
ListenersOf(event) ==
    CASE event = "scroll" -> <<"cosmicScroll", "navbarScroll", "handleScroll", "tocScroll">>
      [] event = "resize" -> <<"cosmicResize", "tocResize">>
      [] event = "keydown" -> <<"tocKeydown">>
      [] event = "#nav-toggle" -> <<"navToggleClick">>
      [] event = ".nav-link" -> <<"navLinkClick">>
      [] event = "#theme-toggle" -> <<"themeToggleClick">>
      [] event = "#contact-form" -> <<"formSubmit">>
      [] event = "#tocFloatBtn" -> <<"tocFloatClick">>
      [] event = "#tocCloseBtn" -> <<"tocCloseClick">>
      [] event = "#tocOverlay" -> <<"tocOverlayClick">>
      [] event = ".toc-link" -> <<"tocLinkClick", "tocLinkClickAgain">>

\* an exception that leaves a listener or a callback is reported, and the
\* next listener runs
reportUncaught(d) ==
    IF d.thrown THEN [d EXCEPT !.thrown = FALSE, !.reported = TRUE] ELSE d

RECURSIVE dispatchEvent(_, _, _)
dispatchEvent(d, ls, e) ==
    IF ls = <<>> THEN d
    ELSE dispatchEvent(
           IF Head(ls) \in d.listeners
           THEN reportUncaught(runListener(d, Head(ls), e))
           ELSE d,
           Tail(ls), e)

\* the events of the window and the document, and clicks on the elements
\* and on a nav link
WindowEvents == {"scroll", "resize"}
ClickTargets ==
    {"#nav-toggle", "#theme-toggle", "#contact-form", "#tocFloatBtn",
     "#tocCloseBtn", "#tocOverlay"}

DocumentNew(present) ==
    [present |-> present,
     listeners |-> {},
     components |-> {},
     loaded |-> FALSE,
     logged |-> FALSE,
     isOpen |-> FALSE,
     sidebarActive |-> FALSE,
     overlayActive |-> FALSE,
     floatBtnActive |-> FALSE,
     bodyOverflow |-> "",
     closeTimers |-> 0,
     typed |-> FALSE,
     thrown |-> FALSE,
     reported |-> FALSE,
     phase |-> "script"]

ApplyDom(a, op) ==
    \E d \in {a} :
        /\ dom' = [d EXCEPT !.reported = FALSE]
        /\ uncaught' = (uncaught \/ d.reported)
        /\ lastOp' = op

domRest == <<webVars, nav, form, notes>>

DomInit ==
    /\ \E present \in Documents : dom = DocumentNew(present)
    /\ uncaught = FALSE
    /\ lastOp = "load"
    /\ WebIdle
    /\ nav = NullObject
    /\ form = NullObject
    /\ notes = <<>>

\* window.app = new App()
StartApp ==
    /\ dom.phase = "script"
    /\ ApplyDom(reportUncaught(appInitializeComponents(
                   [dom EXCEPT !.phase = "app"])), "startApp")
    /\ UNCHANGED domRest

\* initTableOfContents(), outside any try block
StartToc ==
    /\ dom.phase = "app"
    /\ ApplyDom(reportUncaught(constructTableOfContents(
                   [dom EXCEPT !.phase = "ready"])), "startToc")
    /\ UNCHANGED domRest

\* the 1000 ms timer of the typing effect
HeroTimer ==
    /\ dom.phase = "ready"
    /\ ApplyDom([dom EXCEPT !.phase = "typed",
                            !.typed = has(dom, ".hero-subtitle")], "heroTimer")
    /\ UNCHANGED domRest

WindowEvent ==
    /\ dom.phase \in {"ready", "typed"}
    /\ \E event \in WindowEvents, innerWidth \in InnerWidths :
          ApplyDom(dispatchEvent(dom, ListenersOf(event),
                                 Event(Null, innerWidth)), event)
    /\ UNCHANGED domRest

\* a key pressed anywhere in the document
KeydownEvent ==
    /\ dom.phase \in {"ready", "typed"}
    /\ \E key \in Keys, innerWidth \in InnerWidths :
          ApplyDom(dispatchEvent(dom, ListenersOf("keydown"),
                                 Event(key, innerWidth)), key)
    /\ UNCHANGED domRest

\* a click on (or a submit of) an element that is in the document
ElementEvent ==
    /\ dom.phase \in {"ready", "typed"}
    /\ \E target \in ClickTargets, innerWidth \in InnerWidths :
          /\ has(dom, target)
          /\ ApplyDom(dispatchEvent(dom, ListenersOf(target),
                                    Event(Null, innerWidth)), target)
    /\ UNCHANGED domRest

NavLinkEvent ==
    /\ dom.phase \in {"ready", "typed"}
    /\ \E innerWidth \in InnerWidths :
          ApplyDom(dispatchEvent(dom, ListenersOf(".nav-link"),
                                 Event(Null, innerWidth)), ".nav-link")
    /\ UNCHANGED domRest

\* a click on a link of the table of contents, which exists once generateTOC
\* has built it
TocLinkEvent ==
    /\ dom.phase \in {"ready", "typed"}
    /\ "tocLinkClick" \in dom.listeners
    /\ dom.closeTimers + 2 <= MaxCloseTimers
    /\ \E innerWidth \in InnerWidths :
          ApplyDom(dispatchEvent(dom, ListenersOf(".toc-link"),
                                 Event(Null, innerWidth)), ".toc-link")
    /\ UNCHANGED domRest

\* the 300 ms timer of a link click: () => this.close()
CloseTimer ==
    /\ dom.closeTimers > 0
    /\ ApplyDom(reportUncaught(tocClose(
                   [dom EXCEPT !.closeTimers = @ - 1])), "closeTimer")
    /\ UNCHANGED domRest

DomNext ==
    \/ StartApp
    \/ StartToc
    \/ HeroTimer
    \/ WindowEvent
    \/ KeydownEvent
    \/ ElementEvent
    \/ NavLinkEvent
    \/ TocLinkEvent
    \/ CloseTimer

DomSpec == DomInit /\ [][DomNext]_vars

\* C4: whichever of the looked-up elements are absent, script load, the
\* start-up callbacks and the scroll, click and keydown handlers raise no
\* uncaught exception
C4_NoUncaught == uncaught = FALSE

\* the fields of App in the order initializeComponents assigns them, and the
\* listeners each constructor registers
ComponentOrder ==
    <<"starField", "navigation", "themeToggle", "scrollAnimations", "contactForm">>

ComponentListeners(c) ==
    CASE c = "starField" -> {"cosmicResize", "cosmicScroll"}
      [] c = "navigation" -> {"navbarScroll", "navToggleClick", "navLinkClick", "handleScroll"}
      [] c = "themeToggle" -> {"themeToggleClick"}
      [] c = "scrollAnimations" -> {}
      [] c = "contactForm" -> {"formSubmit"}

\* C11: after initializeComponents the constructed components are a prefix of
\* the fixed order, nothing of a component after the one that threw was run,
\* body has 'loaded' exactly when all five were constructed, a failure is
\* logged, and no exception leaves initializeComponents
C11_PrefixConstructed ==
    dom.phase \in {"app", "ready", "typed"} =>
        \E k \in 0..Len(ComponentOrder) :
            /\ dom.components = {ComponentOrder[i] : i \in 1..k}
            /\ \A i \in (k + 2)..Len(ComponentOrder) :
                  dom.listeners \cap ComponentListeners(ComponentOrder[i]) = {}
            /\ dom.loaded <=> k = Len(ComponentOrder)
            /\ dom.logged <=> k < Len(ComponentOrder)
            /\ lastOp = "startApp" => ~uncaught

C11_Witness ==
    /\ lastOp = "startApp"
    /\ dom.components = {"starField", "navigation"}
    /\ "#contact-form" \in dom.present
    /\ "formSubmit" \notin dom.listeners
    /\ dom.logged
    /\ ~dom.loaded

\* C12: the scroll handler of the CosmicWeb changes nothing of it but
\* portraitCenter: clusters, filaments, galaxies, initialPortraitCenter and
\* the canvas size are as before
C12_ScrollKeepsStructure ==
    [][lastOp' = "scroll" =>
          /\ cw' = [cw EXCEPT !.portraitCenter = cw'.portraitCenter]
          /\ cw'.clusters = cw.clusters
          /\ cw'.filaments = cw.filaments
          /\ cw'.galaxies = cw.galaxies
          /\ cw'.initialPortraitCenter = cw.initialPortraitCenter
          /\ cw'.canvas = cw.canvas]_vars

C12_Witness ==
    /\ lastOp = "scroll"
    /\ cw.portraitCenter.isPortraitOrigin
    /\ cw.portraitCenter.y # cw.initialPortraitCenter.y
    /\ galaxiesLength(cw) > 0

\* C13: once the ThemeToggle is constructed, data-theme equals currentTheme,
\* the icon is the sun exactly for 'light' and the moon otherwise, after a
\* toggle the stored theme equals currentTheme, and construction leaves
\* localStorage as it was
C13_ThemeStateAgrees ==
    /\ [](/\ doc.dataTheme = tt.currentTheme
          /\ doc.icon = (IF tt.currentTheme = "light" THEN "fas fa-sun" ELSE "fas fa-moon")
          /\ toggled # Null => storage = tt.currentTheme)
    /\ [][lastOp' = "load" => storage' = storage]_vars

C13_Witness ==
    /\ lastOp = "toggleTheme"
    /\ tt.currentTheme = "light"
    /\ doc.icon = "fas fa-sun"
    /\ storage = "light"
    /\ doc.dataTheme = "light"

\* C14: whatever theme is stored at the start, a toggle leaves 'dark' or
\* 'light', changes the theme, and the second of two consecutive toggles
\* restores the theme that was applied before the first
C14_TwoThemesAlternate ==
    [][lastOp' = "toggleTheme" =>
          /\ doc'.dataTheme \in {"dark", "light"}
          /\ doc'.dataTheme # doc.dataTheme
          /\ lastOp = "toggleTheme" => doc'.dataTheme = before]_vars

\* the colors getThemeColors gives for a value of data-theme
ColorsOf(theme) == getThemeColors([doc |-> [dataTheme |-> theme]])

\* C15: the frame a toggleTheme() call draws uses the colors of the theme the
\* call switched to, and the call schedules no frame and leaves time alone
C15_ForcedRedraw ==
    [][lastOp' = "toggleTheme" =>
          /\ win'.raf = win.raf
          /\ cw'.time = cw.time
          /\ doc'.dataTheme = tt'.currentTheme
          /\ cw'.ctx # <<>>
          /\ \A i \in 1..Len(cw'.ctx) :
                /\ cw'.ctx[i].op = "stroke" =>
                      cw'.ctx[i].style = ColorsOf(tt'.currentTheme).filament
                /\ cw'.ctx[i].op = "bigBang" =>
                      cw'.ctx[i].style = ColorsOf(tt'.currentTheme).bigBang
                /\ cw'.ctx[i].op = "fill" =>
                      (cw'.ctx[i].style.color = "rgba(20, 20, 20")
                          <=> (tt'.currentTheme = "light")]_vars

C15_Witness ==
    /\ lastOp = "toggleTheme"
    /\ tt.currentTheme = "light"
    /\ cw.time > 0
    /\ \E i \in 1..Len(cw.ctx) :
          cw.ctx[i].op = "stroke" /\ cw.ctx[i].style = "rgba(0, 0, 0"
    /\ \E i \in 1..Len(cw.ctx) : cw.ctx[i].op = "fill"

\* C17: in light mode the alpha written into a galaxy's fill color is 1.2
\* times the alpha computed from shimmer, fade and depth brightness; in dark
\* mode it is the computed alpha
C17_LightAlpha ==
    lastOp \in {"animate", "toggleTheme"} =>
        \A i \in 1..Len(cw.ctx) :
            cw.ctx[i].op = "fill" =>
                LET alpha == galaxyAlpha(cw.time, cw.portraitCenter,
                                         cw.galaxies[cw.ctx[i].item])
                IN IF doc.dataTheme = "light"
                   THEN 10 * cw.ctx[i].style.alpha = 12 * alpha
                   ELSE cw.ctx[i].style.alpha = alpha

\* C16 as stated: the first frame after initialize() and the first frame
\* after every resize is drawn with offset (0, 0), and every frame of a page
\* that is not a portrait page is
C16_OffsetZero ==
    /\ frameKind \in {"first", "firstScrolled"} => (cw.offsetX = 0 /\ cw.offsetY = 0)
    /\ ~cw.portraitCenter.isPortraitOrigin => (cw.offsetX = 0 /\ cw.offsetY = 0)

\* C16 as amended: the first frame after initialize() and the first frame
\* after a resize with no scroll event handled in between is drawn with
\* offset (0, 0), and every frame of a page that is not a portrait page is
C16_OffsetZeroUnlessScrolled ==
    /\ frameKind = "first" => (cw.offsetX = 0 /\ cw.offsetY = 0)
    /\ ~cw.portraitCenter.isPortraitOrigin => (cw.offsetX = 0 /\ cw.offsetY = 0)
    /\ lastOp \in {"load", "animate", "toggleTheme"} =>
          /\ cw.offsetX = cw.portraitCenter.x - cw.initialPortraitCenter.x
          /\ cw.offsetY = cw.portraitCenter.y - cw.initialPortraitCenter.y

C16_Witness ==
    /\ frameKind = "first"
    /\ lastOp = "animate"
    /\ cw.portraitCenter.isPortraitOrigin
    /\ win.scrollY # 0
    /\ cw.offsetY = 0

C16_WitnessFixed ==
    /\ frameKind = "later"
    /\ lastOp = "animate"
    /\ ~cw.portraitCenter.isPortraitOrigin
    /\ win.scrollY # 0

\* submissions whose promise has not settled
Pending == {id \in 1..Len(form.outcome) : form.outcome[id] = "pending"}

\* C18: while a submission is pending the submit button is disabled and
\* shows the 'Sending...' label, also when submissions overlap
C18_DisabledWhilePending ==
    Pending # {} => (form.btnDisabled /\ form.btnHTML = SendingText)

TimerOrder == <<"in", "out", "remove">>

\* C19: the callbacks of a notification run in the order slide in, slide
\* out, remove, each at most once; the element leaves the body exactly in
\* the remove callback, and every notification is eventually removed
C19_Transient ==
    /\ [](\A i \in 1..Len(notes) :
             /\ Len(notes[i].fired) <= 3
             /\ notes[i].fired = SubSeq(TimerOrder, 1, Len(notes[i].fired))
             /\ notes[i].inBody <=> Len(notes[i].fired) < 3
             /\ notes[i].transform =
                    (IF Len(notes[i].fired) = 1 THEN "translateX(0)"
                     ELSE "translateX(100%)"))
    /\ [][\A i \in 1..Len(notes) : ~notes[i].inBody => ~notes'[i].inBody]_vars
    /\ \A i \in 1..MaxNotes :
          (Len(notes) >= i /\ notes[i].inBody)
              ~> (Len(notes) >= i /\ ~notes[i].inBody)

C19_Witness ==
    /\ Len(notes) >= 3
    /\ \E i \in 1..Len(notes) : notes[i].type = "temp" /\ ~notes[i].inBody
    /\ \E i \in 1..Len(notes) : notes[i].type = "error" /\ ~notes[i].inBody
    /\ \E i \in 1..Len(notes) :
          notes[i].type = "success" /\ notes[i].fired = <<"in">>

\* ---------------------------------------------------------------------------
\* throttle(func, limit)
\* ---------------------------------------------------------------------------
\* the limits the script passes, in units of 50 ms: 100 ms and 300 ms
Limits == {2, 6}
\* arguments and this of a call of the wrapper
Arguments == {"event1", "event2"}
Contexts == {"window", "document"}

\* throttle(func, limit): the closure with inThrottle undefined. timer: the
\* setTimeout callback is pending, due at the earliest at time due; now is the
\* time; calls and runs are history: the calls of the wrapper and the
\* invocations of func (which returns normally: the functions the script
\* throttles do)
throttle(limit) ==
    [limit |-> limit, inThrottle |-> FALSE, timer |-> FALSE, due |-> 0, now |-> 0,
     calls |-> <<>>, runs |-> <<>>]

\* func.apply(context, args)
funcApply(t, context, args) ==
    [t EXCEPT !.runs = Append(@, [args |-> args, context |-> context, at |-> t.now,
                                  call |-> Len(t.calls)])]

\* setTimeout(() => inThrottle = false, limit)
setThrottleTimer(t) == [t EXCEPT !.timer = TRUE, !.due = t.now + t.limit]

\* the returned wrapper
throttled(a, context, args) == Call(a, LAMBDA t :
    LET called == [t EXCEPT !.calls = Append(@, [args |-> args, context |-> context,
                                                  at |-> t.now])]
    IN IF ~called.inThrottle
       THEN setThrottleTimer([funcApply(called, context, args) EXCEPT !.inThrottle = TRUE])
       ELSE called)

throttleTimerTrailing(a) == Call(a, LAMBDA t :
    LET last == t.calls[Len(t.calls)] IN
    IF last.at > t.due - t.limit
    THEN funcApply([t EXCEPT !.inThrottle = FALSE, !.timer = FALSE], last.context, last.args)
    ELSE [t EXCEPT !.inThrottle = FALSE, !.timer = FALSE])

\* the timer callback
throttleTimer(t) == [t EXCEPT !.inThrottle = FALSE, !.timer = FALSE]

throttleRest == <<cw, win, doc, storage, tt, toggled, before, frameKind, nav, form,
                  notes, dom, uncaught>>

ThrottleInit ==
    /\ \E limit \in Limits : thr = throttle(limit)
    /\ lastOp = "load"
    /\ cw = NullObject
    /\ win = NullObject
    /\ doc = NullObject
    /\ storage = Null
    /\ tt = NullObject
    /\ toggled = Null
    /\ before = Null
    /\ frameKind = Null
    /\ nav = NullObject
    /\ form = NullObject
    /\ notes = <<>>
    /\ dom = NullObject
    /\ uncaught = FALSE

\* an event is dispatched to the throttled listener
ThrottledCall ==
    /\ Len(thr.calls) < MaxCalls
    /\ \E context \in Contexts, args \in Arguments :
          thr' = throttled(thr, context, args)
    /\ lastOp' = "call"
    /\ UNCHANGED throttleRest

\* the timer fires, at its due time or later
ThrottleTimer ==
    /\ thr.timer
    /\ thr.now >= thr.due
    /\ thr' = throttleTimer(thr)
    /\ lastOp' = "timer"
    /\ UNCHANGED throttleRest

\* 50 ms pass
Tick ==
    /\ thr.now < MaxClock
    /\ thr' = [thr EXCEPT !.now = @ + 1]
    /\ lastOp' = "tick"
    /\ UNCHANGED throttleRest

ThrottleNext == ThrottledCall \/ ThrottleTimer \/ Tick

ThrottleSpec == ThrottleInit /\ [][ThrottleNext]_vars

\* the call of the wrapper that invocation r of func was made in
CallOf(r) == thr.calls[thr.runs[r].call]

Ran(k) == \E r \in 1..Len(thr.runs) : thr.runs[r].call = k

tocShown ==
    /\ dom.sidebarActive
    /\ dom.overlayActive
    /\ dom.floatBtnActive
    /\ dom.bodyOverflow = "hidden"

tocState(d) ==
    <<d.isOpen, d.sidebarActive, d.overlayActive, d.floatBtnActive, d.bodyOverflow>>

\* the step clauses of C21: a float-button click flips isOpen, a close or
\* overlay click and a delayed close leave it false, and a key changes the
\* state only if it is Escape and the sidebar was open
tocStep ==
    /\ (lastOp' = "#tocFloatBtn" /\ "tocFloatClick" \in dom.listeners)
          => dom'.isOpen = ~dom.isOpen
    /\ lastOp' \in {"#tocCloseBtn", "#tocOverlay", "closeTimer"}
          => ~dom'.isOpen
    /\ (lastOp' \in Keys /\ ~(lastOp' = "Escape" /\ dom.isOpen))
          => tocState(dom') = tocState(dom)

\* C21: after any sequence of float-button, close-button and overlay clicks,
\* Escape presses and delayed closes of link clicks, isOpen is true exactly
\* when the sidebar, the overlay and the float button all carry 'active' and
\* the overflow of body is 'hidden'; a float-button click flips isOpen, a
\* close or overlay click and a delayed close leave it false, and a key
\* changes the state only if it is Escape and the sidebar was open
C21_OpenStateConsistent ==
    /\ [](dom.isOpen <=> tocShown)
    /\ [][tocStep]_vars

\* the documents in which init registers the three click listeners
tocComplete == {"#tocCloseBtn", "#tocOverlay"} \subseteq dom.present

\* what C21 states holds in the documents that have the close button and
\* the overlay
C21_WhenComplete ==
    /\ [](tocComplete => (dom.isOpen <=> tocShown))
    /\ [][tocComplete => tocStep]_vars

\* a delayed close of a link click has closed the open sidebar of such a
\* document
C21_WhenCompleteWitness ==
    /\ tocComplete
    /\ lastOp = "closeTimer"
    /\ "tocKeydown" \in dom.listeners
    /\ ~dom.isOpen
    /\ ~tocShown
    /\ dom.closeTimers = 1

====
